---- MODULE Spec2Model ----
(***************************************************************************)
(* Dr. Greenthumb trademark tracker: the tracker (tracker.py), the         *)
(* calendar emitter (integrations/calendar_sync.py), the licensing         *)
(* connector (integrations/licensing_connector.py) and the email notifier  *)
(* (integrations/email_notifier.py), as state machines over the two JSON   *)
(* files and the objects built from them.                                  *)
(*                                                                         *)
(* A date string "YYYY-MM-DD" is the triple <<YYYY, MM, DD>> of its three  *)
(* numeric fields; a date object is its proleptic Gregorian ordinal, as    *)
(* datetime.date.toordinal gives it.  A text string that is case-folded    *)
(* is the sequence of its characters.  A JSON file is a record             *)
(* [state, content] with state "missing", "malformed" or "ok".             *)
(***************************************************************************)
EXTENDS Integers, Sequences, FiniteSets, TLC

VARIABLES
    tm_file,              \* trademarks.json on disk
    lic_file,             \* licensing_agreements.json on disk
    ical_file,            \* trademark_deadlines.ics on disk
    prog,                 \* the object the run constructs
    pc,                   \* where the run stands
    trademarks,           \* self.trademarks of the constructed object
    licensing_agreements, \* self.licensing_agreements of the connector
    today,                \* the date datetime.now() gives, as an ordinal
    call,                 \* the last completed method call and its result,
                          \* cleared when generate_report begins
    frame,                \* locals of a generate_report in progress
    smtp,                 \* the notifier's transport: whether a password is set
    outbox                \* every send_email call made so far, in order

vars == <<tm_file, lic_file, ical_file, prog, pc, trademarks,
          licensing_agreements, today, call, frame, smtp, outbox>>

(***************************************************************************)
(* Bounds of the model.                                                    *)
(***************************************************************************)
MaxTms == 2        \* records in trademarks.json, and in self.trademarks
MaxTicks == 1      \* midnights that pass during a run
MaxId == 3         \* largest id found in a hand-edited trademarks.json
MaxAgreements == 2 \* records in licensing_agreements.json
MaxSends == 3      \* alert and report calls made on one notifier

(***************************************************************************)
(* Dates: datetime.fromisoformat, date arithmetic and strftime("%Y%m%d").  *)
(***************************************************************************)
is_leap(y) == (y % 4 = 0) /\ ((y % 100 # 0) \/ (y % 400 = 0))

days_in_month(y, m) ==
    IF m = 2 THEN (IF is_leap(y) THEN 29 ELSE 28)
    ELSE IF m \in {4, 6, 9, 11} THEN 30 ELSE 31

days_before_year(y) ==
    LET p == y - 1 IN p * 365 + (p \div 4) - (p \div 100) + (p \div 400)

RECURSIVE days_before_month(_, _)
days_before_month(y, m) ==
    IF m <= 1 THEN 0 ELSE days_before_month(y, m - 1) + days_in_month(y, m - 1)

ymd2ord(y, m, d) == days_before_year(y) + days_before_month(y, m) + d

RECURSIVE year_of(_, _)
year_of(n, y) == IF days_before_year(y + 1) >= n THEN y ELSE year_of(n, y + 1)

RECURSIVE month_of(_, _, _)
month_of(n, y, m) ==
    IF n <= days_before_month(y, m) + days_in_month(y, m) THEN m
    ELSE month_of(n, y, m + 1)

\* date.fromordinal followed by strftime("%Y%m%d"): the three fields of the text
strftime_Ymd(n) ==
    LET y == year_of(n, (n \div 366) + 1)
        r == n - days_before_year(y)
        m == month_of(r, y, 1)
    IN  <<y, m, r - days_before_month(y, m)>>

\* datetime.fromisoformat(s).date(): ValueError unless s names a real day
fromisoformat(s) ==
    IF /\ s[1] >= 1 /\ s[1] <= 9999
       /\ s[2] >= 1 /\ s[2] <= 12
       /\ s[3] >= 1 /\ s[3] <= days_in_month(s[1], s[2])
    THEN [ok |-> TRUE, date |-> ymd2ord(s[1], s[2], s[3])]
    ELSE [ok |-> FALSE, date |-> 0]

(***************************************************************************)
(* The inputs the runs are given.                                          *)
(***************************************************************************)
Today0 == ymd2ord(2027, 12, 1)

\* renewal_date strings: 0, 30, 31, 61 and 91 days after Today0, and
\* "2027-02-29", which names no day
GoodDates == {<<2027, 12, 1>>, <<2027, 12, 31>>, <<2028, 1, 1>>,
              <<2028, 1, 31>>, <<2028, 3, 1>>}
BadDates == {<<2027, 2, 29>>}
DateStrs == GoodDates \cup BadDates

TmStatuses == {"active", "pending", "abandoned"}
Horizons == {29, 30, 60, 90}

Trademark(i, n, j, r, s) ==
    [id |-> i, name |-> n, jurisdiction |-> j, renewal_date |-> r, status |-> s]

SeqsUpTo(S, n) == UNION {[1..k -> S] : k \in 0..n}

File(st, c) == [state |-> st, content |-> c]
NoFile == File("missing", <<>>)
BadFile == File("malformed", <<>>)

NoCall == [op |-> "none"]
NoFrame == [as_of |-> <<>>, upcoming |-> <<>>]
NoSmtp == [password |-> FALSE]

(***************************************************************************)
(* tracker.py                                                              *)
(***************************************************************************)
\* load_data: a missing file is an empty portfolio, an unparsable one raises
load_data(file) ==
    IF file.state = "missing" THEN [raised |-> FALSE, value |-> <<>>]
    ELSE IF file.state = "malformed" THEN [raised |-> TRUE, value |-> <<>>]
    ELSE [raised |-> FALSE, value |-> file.content]

\* the id add_trademark gives the new record
new_id(tms) == Len(tms) + 1

\* variants of in_window, for the sensitivity checks: the threshold day left
\* out, and a window that holds only the last 30 days before the threshold
in_window_open(now, renewal, threshold) == now <= renewal /\ renewal < threshold
in_window_tier(now, renewal, threshold) ==
    now <= renewal /\ threshold - 30 < renewal /\ renewal <= threshold

\* today <= renewal <= threshold
in_window(now, renewal, threshold) == now <= renewal /\ renewal <= threshold

\* {**tm, 'days_until': days_until}
with_days_until(tm, d) == [days_until |-> d] @@ tm

\* variant of insert_sorted that puts x before the records of equal key
RECURSIVE insert_before_equal(_, _)
insert_before_equal(s, x) ==
    IF s = <<>> THEN <<x>>
    ELSE IF s[Len(s)].days_until < x.days_until THEN Append(s, x)
    ELSE Append(insert_before_equal(SubSeq(s, 1, Len(s) - 1), x), s[Len(s)])

\* sorted(upcoming, key=lambda x: x['days_until']): a stable sort
RECURSIVE insert_sorted(_, _)
insert_sorted(s, x) ==
    IF s = <<>> THEN <<x>>
    ELSE IF s[Len(s)].days_until <= x.days_until THEN Append(s, x)
    ELSE Append(insert_sorted(SubSeq(s, 1, Len(s) - 1), x), s[Len(s)])

RECURSIVE sorted_from(_, _, _)
sorted_from(s, i, acc) ==
    IF i > Len(s) THEN acc ELSE sorted_from(s, i + 1, insert_sorted(acc, s[i]))

sorted(s) == sorted_from(s, 1, <<>>)

\* variant of upcoming_loop that skips a record whose date does not parse
RECURSIVE upcoming_loop_skipping(_, _, _, _, _)
upcoming_loop_skipping(tms, i, now, threshold, acc) ==
    IF i > Len(tms) THEN [raised |-> FALSE, value |-> acc]
    ELSE LET r == fromisoformat(tms[i].renewal_date) IN
         IF tms[i].status = "active" /\ r.ok /\ in_window(now, r.date, threshold)
         THEN upcoming_loop_skipping(tms, i + 1, now, threshold,
                  Append(acc, with_days_until(tms[i], r.date - now)))
         ELSE upcoming_loop_skipping(tms, i + 1, now, threshold, acc)

\* the for loop of get_upcoming, from record i on, with upcoming = acc
RECURSIVE upcoming_loop(_, _, _, _, _)
upcoming_loop(tms, i, now, threshold, acc) ==
    IF i > Len(tms) THEN [raised |-> FALSE, value |-> acc]
    ELSE IF tms[i].status # "active"
         THEN upcoming_loop(tms, i + 1, now, threshold, acc)
    ELSE LET r == fromisoformat(tms[i].renewal_date) IN
         IF ~r.ok THEN [raised |-> TRUE, value |-> <<>>]
         ELSE IF in_window(now, r.date, threshold)
              THEN upcoming_loop(tms, i + 1, now, threshold,
                       Append(acc, with_days_until(tms[i], r.date - now)))
         ELSE upcoming_loop(tms, i + 1, now, threshold, acc)

get_upcoming(tms, now, days) ==
    LET res == upcoming_loop(tms, 1, now, now + days, <<>>)
    IN  IF res.raised THEN res
        ELSE [raised |-> FALSE, value |-> sorted(res.value)]

\* variant of stored_record: the entry appended is the stored dict itself,
\* given a days_until key
stored_record_aliased(tm, d) == with_days_until(tm, d)

\* the stored record once its entry is appended: the entry {**tm, ...} is a
\* new dict, the stored one is not written
stored_record(tm, d) == tm

\* self.trademarks after the for loop of get_upcoming, from record i on
RECURSIVE stored_after_loop(_, _, _, _)
stored_after_loop(tms, i, now, threshold) ==
    IF i > Len(tms) THEN tms
    ELSE IF tms[i].status # "active"
         THEN stored_after_loop(tms, i + 1, now, threshold)
    ELSE LET r == fromisoformat(tms[i].renewal_date) IN
         IF ~r.ok THEN tms
         ELSE IF in_window(now, r.date, threshold)
              THEN stored_after_loop(
                       [tms EXCEPT ![i] = stored_record(tms[i], r.date - now)],
                       i + 1, now, threshold)
         ELSE stored_after_loop(tms, i + 1, now, threshold)

\* self.trademarks after get_upcoming(days)
trademarks_after_upcoming(tms, now, days) ==
    stored_after_loop(tms, 1, now, now + days)

\* TrademarkTracker(): __init__ runs load_data
TrackerInit ==
    /\ prog = "none"
    /\ LET r == load_data(tm_file) IN
        /\ prog' = "tracker"
        /\ pc' = IF r.raised THEN "error" ELSE "ready"
        /\ trademarks' = r.value
    /\ UNCHANGED <<tm_file, lic_file, ical_file, licensing_agreements, today,
                   call, frame, smtp, outbox>>

\* add_trademark(name, jurisdiction, filing_date, renewal_date), with save_data
AddTrademark ==
    /\ prog = "tracker" /\ pc = "ready"
    /\ Len(trademarks) < MaxTms
    /\ \E r \in DateStrs :
        LET tm == Trademark(new_id(trademarks), "DR. GREENTHUMB", "Arizona",
                            r, "active")
        IN  /\ trademarks' = Append(trademarks, tm)
            /\ tm_file' = File("ok", trademarks')
            /\ call' = [op |-> "add_trademark", before |-> trademarks,
                        added |-> tm]
    /\ UNCHANGED <<lic_file, ical_file, prog, pc, licensing_agreements, today,
                   frame, smtp, outbox>>

\* get_upcoming(days), as --upcoming N calls it; an exception ends the run
GetUpcoming ==
    /\ prog = "tracker" /\ pc = "ready"
    /\ \E days \in Horizons :
        LET r == get_upcoming(trademarks, today, days) IN
        /\ call' = [op |-> "get_upcoming", days |-> days, as_of |-> today,
                    before |-> trademarks, file |-> tm_file,
                    raised |-> r.raised, ret |-> r.value]
        /\ pc' = IF r.raised THEN "error" ELSE "ready"
        /\ trademarks' = trademarks_after_upcoming(trademarks, today, days)
    /\ UNCHANGED <<tm_file, lic_file, ical_file, prog, licensing_agreements,
                   today, frame, smtp, outbox>>

\* generate_report up to its first get_upcoming call
ReportStart ==
    /\ prog = "tracker" /\ pc = "ready"
    /\ pc' = "report_30"
    /\ frame' = NoFrame
    /\ call' = NoCall
    /\ UNCHANGED <<tm_file, lic_file, ical_file, prog, trademarks,
                   licensing_agreements, today, smtp, outbox>>

report_days(p) == IF p = "report_30" THEN 30 ELSE IF p = "report_60" THEN 60 ELSE 90
report_next(p) ==
    IF p = "report_30" THEN "report_60"
    ELSE IF p = "report_60" THEN "report_90" ELSE "report_print"

\* upcoming_30 = self.get_upcoming(30), then 60, then 90: each reads the clock
ReportCall ==
    /\ prog = "tracker" /\ pc \in {"report_30", "report_60", "report_90"}
    /\ LET r == get_upcoming(trademarks, today, report_days(pc)) IN
        IF r.raised
        THEN /\ pc' = "error"
             /\ frame' = NoFrame
        ELSE /\ pc' = report_next(pc)
             /\ frame' = [as_of |-> Append(frame.as_of, today),
                          upcoming |-> Append(frame.upcoming, r.value)]
    /\ trademarks' = trademarks_after_upcoming(trademarks, today,
                                               report_days(pc))
    /\ UNCHANGED <<tm_file, lic_file, ical_file, prog, licensing_agreements,
                   today, call, smtp, outbox>>

\* the printed figures of generate_report
ReportPrint ==
    /\ prog = "tracker" /\ pc = "report_print"
    /\ call' = [op |-> "generate_report",
                before |-> trademarks,
                as_of |-> frame.as_of,
                total_active |->
                    Cardinality({i \in DOMAIN trademarks :
                                    trademarks[i].status = "active"}),
                within |-> [k \in 1..3 |-> Len(frame.upcoming[k])],
                upcoming |-> frame.upcoming,
                urgent |-> frame.upcoming[1]]
    /\ pc' = "ready"
    /\ frame' = NoFrame
    /\ UNCHANGED <<tm_file, lic_file, ical_file, prog, trademarks,
                   licensing_agreements, today, smtp, outbox>>

\* midnight passes: datetime.now().date() moves on by one day
Tick ==
    /\ prog = "tracker"
    /\ today < Today0 + MaxTicks
    /\ today' = today + 1
    /\ UNCHANGED <<tm_file, lic_file, ical_file, prog, pc, trademarks,
                   licensing_agreements, call, frame, smtp, outbox>>

(***************************************************************************)
(* integrations/calendar_sync.py.  A formatted text is the sequence of its *)
(* pieces; str(n) is the sequence of the decimal digits of n.              *)
(***************************************************************************)
\* load_trademarks: open() and json.load() with no handler
load_trademarks(file) ==
    IF file.state = "ok" THEN [raised |-> FALSE, value |-> file.content]
    ELSE [raised |-> TRUE, value |-> <<>>]

DigitChar == <<"0", "1", "2", "3", "4", "5", "6", "7", "8", "9">>

RECURSIVE str(_)
str(n) ==
    IF n < 10 THEN <<DigitChar[n + 1]>>
    ELSE Append(str(n \div 10), DigitChar[(n % 10) + 1])

\* variant of reminder_days without the 7-day reminder
reminder_days_quarterly == <<90, 60, 30>>

\* for days_before in [90, 60, 30, 7]
reminder_days == <<90, 60, 30, 7>>

\* _create_event(trademark, event_date, event_type): DTSTART and SUMMARY
create_event(tm, event_date, event_type) ==
    [dtstart |-> strftime_Ymd(event_date),
     summary |-> <<"TM: ", tm.name, " - ">> \o event_type]

\* the events of one trademark: the reminders, then the deadline itself
events_of(tm, renewal) ==
    [k \in DOMAIN reminder_days |->
        create_event(tm, renewal - reminder_days[k],
                     str(reminder_days[k]) \o <<"-day reminder">>)]
    \o <<create_event(tm, renewal, <<"RENEWAL DEADLINE">>)>>

\* the for loop of generate_ical, from record i on, with the events so far
RECURSIVE ical_loop(_, _, _)
ical_loop(tms, i, acc) ==
    IF i > Len(tms) THEN [raised |-> FALSE, value |-> acc]
    ELSE IF tms[i].status # "active" THEN ical_loop(tms, i + 1, acc)
    ELSE LET r == fromisoformat(tms[i].renewal_date) IN
         IF ~r.ok THEN [raised |-> TRUE, value |-> <<>>]
         ELSE ical_loop(tms, i + 1, acc \o events_of(tms[i], r.date))

generate_ical(tms) == ical_loop(tms, 1, <<>>)

\* CalendarSync(): __init__ runs load_trademarks
CalendarInit ==
    /\ prog = "none"
    /\ LET r == load_trademarks(tm_file) IN
        /\ prog' = "calendar"
        /\ pc' = IF r.raised THEN "error" ELSE "ready"
        /\ trademarks' = r.value
    /\ UNCHANGED <<tm_file, lic_file, ical_file, licensing_agreements, today,
                   call, frame, smtp, outbox>>

\* generate_ical(): the file is written after the loop, so not when it raises
GenerateIcal ==
    /\ prog = "calendar" /\ pc = "ready"
    /\ LET r == generate_ical(trademarks) IN
        /\ call' = [op |-> "generate_ical", before |-> trademarks,
                    raised |-> r.raised, ret |-> r.value]
        /\ pc' = IF r.raised THEN "error" ELSE "ready"
        /\ ical_file' = IF r.raised THEN ical_file ELSE File("ok", r.value)
    /\ UNCHANGED <<tm_file, lic_file, prog, trademarks, licensing_agreements,
                   today, frame, smtp, outbox>>

(***************************************************************************)
(* The renewal runs: the tracker and the calendar over one trademarks.json *)
(***************************************************************************)
\* files whose records carry the ids add_trademark gave them
RenewalFiles ==
    {NoFile, BadFile} \cup
    {File("ok", [i \in DOMAIN c |->
                    Trademark(i, "DR. GREENTHUMB", "Arizona", c[i][1], c[i][2])]) :
        c \in SeqsUpTo(DateStrs \X TmStatuses, MaxTms)}

InitCommon ==
    /\ lic_file = NoFile
    /\ ical_file = NoFile
    /\ prog = "none"
    /\ pc = "start"
    /\ trademarks = <<>>
    /\ licensing_agreements = <<>>
    /\ today = Today0
    /\ call = NoCall
    /\ frame = NoFrame
    /\ smtp = NoSmtp
    /\ outbox = <<>>

InitRenewal == tm_file \in RenewalFiles /\ InitCommon

NextRenewal ==
    \/ TrackerInit
    \/ AddTrademark
    \/ GetUpcoming
    \/ ReportStart
    \/ ReportCall
    \/ ReportPrint
    \/ Tick
    \/ CalendarInit
    \/ GenerateIcal

SpecRenewal == InitRenewal /\ [][NextRenewal]_vars

(***************************************************************************)
(* integrations/licensing_connector.py.  A jurisdiction or territory name  *)
(* is the sequence of its characters, so that str.lower() is computed.     *)
(***************************************************************************)
UpperAZ == <<"A", "B", "C", "D", "E", "F", "G", "H", "I", "J", "K", "L", "M",
             "N", "O", "P", "Q", "R", "S", "T", "U", "V", "W", "X", "Y", "Z">>
LowerAZ == <<"a", "b", "c", "d", "e", "f", "g", "h", "i", "j", "k", "l", "m",
             "n", "o", "p", "q", "r", "s", "t", "u", "v", "w", "x", "y", "z">>

\* the lowercase of each uppercase letter
LowerChar ==
    [c \in {UpperAZ[k] : k \in DOMAIN UpperAZ} |->
        LowerAZ[CHOOSE k \in DOMAIN UpperAZ : UpperAZ[k] = c]]

\* str.lower()
lower(text) ==
    [i \in DOMAIN text |->
        IF text[i] \in DOMAIN LowerChar THEN LowerChar[text[i]] ELSE text[i]]

Texas == <<"T", "e", "x", "a", "s">>
texas == <<"t", "e", "x", "a", "s">>
Nevada == <<"N", "e", "v", "a", "d", "a">>
nevada == <<"n", "e", "v", "a", "d", "a">>

Jurisdictions == {Texas, Nevada}
TerritoryLists == {<<texas>>, <<Nevada>>, <<texas, nevada>>}
AgreementStatuses == {"active", "pending", "expired"}

Agreement(i, t, st) ==
    [id |-> i, licensee |-> "Barney's Farm", territories |-> t, status |-> st]
\* an agreement record with no 'territories' key
BareAgreement(i, st) == [id |-> i, licensee |-> "Barney's Farm", status |-> st]

\* variant of load_json that answers every failure with an empty list
load_json_forgiving(file) ==
    IF file.state = "ok" THEN [raised |-> FALSE, value |-> file.content]
    ELSE [raised |-> FALSE, value |-> <<>>]

\* load_json: only FileNotFoundError is caught
load_json(file) ==
    IF file.state = "missing" THEN [raised |-> FALSE, value |-> <<>>]
    ELSE IF file.state = "malformed" THEN [raised |-> TRUE, value |-> <<>>]
    ELSE [raised |-> FALSE, value |-> file.content]

\* agreement.get('territories', [])
get_territories(agreement) ==
    IF "territories" \in DOMAIN agreement THEN agreement.territories ELSE <<>>

in_list(x, list) == \E k \in DOMAIN list : list[k] = x

\* the loop of _check_unfiled_territory, from agreement k on
RECURSIVE unfiled_loop(_, _, _, _)
unfiled_loop(tm, ags, k, acc) ==
    IF k > Len(ags) THEN acc
    ELSE IF /\ in_list(lower(tm.jurisdiction), get_territories(ags[k]))
            /\ ags[k].status = "active"
         THEN unfiled_loop(tm, ags, k + 1,
                  Append(acc, [trademark |-> tm.name,
                               jurisdiction |-> tm.jurisdiction,
                               issue |-> "Operating without TM protection",
                               licensee |-> ags[k].licensee,
                               agreement_id |-> ags[k].id,
                               risk_level |-> "HIGH"]))
    ELSE unfiled_loop(tm, ags, k + 1, acc)

check_unfiled_territory(tm, ags) == unfiled_loop(tm, ags, 1, <<>>)

\* the loop of check_territory_conflicts, from trademark i on
RECURSIVE conflicts_loop(_, _, _, _)
conflicts_loop(tms, ags, i, acc) ==
    IF i > Len(tms) THEN acc
    ELSE IF tms[i].status = "pending" \/ tms[i].status = "abandoned"
         THEN conflicts_loop(tms, ags, i + 1,
                             acc \o check_unfiled_territory(tms[i], ags))
    ELSE conflicts_loop(tms, ags, i + 1, acc)

check_territory_conflicts(tms, ags) == conflicts_loop(tms, ags, 1, <<>>)

\* licensed_territories of generate_territory_report
licensed_territories(ags) ==
    UNION {{lower(get_territories(ags[k])[n]) :
                n \in DOMAIN get_territories(ags[k])} :
           k \in {j \in DOMAIN ags : ags[j].status = "active"}}

\* variant of protected_territories that leaves the jurisdiction as written
protected_territories_as_written(tms) ==
    {tms[i].jurisdiction : i \in {j \in DOMAIN tms : tms[j].status = "active"}}

\* protected_territories of generate_territory_report
protected_territories(tms) ==
    {lower(tms[i].jurisdiction) :
        i \in {j \in DOMAIN tms : tms[j].status = "active"}}

\* LicensingConnector(): __init__ loads both files with load_json
ConnectorInit ==
    /\ prog = "none"
    /\ LET t == load_json(tm_file)
           a == load_json(lic_file)
       IN  /\ prog' = "connector"
           /\ pc' = IF t.raised \/ a.raised THEN "error" ELSE "ready"
           /\ trademarks' = t.value
           /\ licensing_agreements' = IF t.raised THEN <<>> ELSE a.value
    /\ UNCHANGED <<tm_file, lic_file, ical_file, today, call, frame, smtp,
                   outbox>>

\* generate_territory_report(), check_territory_conflicts() included
GenerateTerritoryReport ==
    /\ prog = "connector" /\ pc = "ready"
    /\ LET licensed == licensed_territories(licensing_agreements)
           protected == protected_territories(trademarks)
           unprotected == licensed \ protected
           conflicts == check_territory_conflicts(trademarks,
                                                  licensing_agreements)
       IN  call' = [op |-> "generate_territory_report",
                    before |-> trademarks,
                    agreements |-> licensing_agreements,
                    licensed_territories |-> licensed,
                    protected_territories |-> protected,
                    ret |-> [licensed |-> Cardinality(licensed),
                             protected |-> Cardinality(protected),
                             unprotected |-> unprotected,
                             conflicts |-> conflicts]]
    /\ UNCHANGED <<tm_file, lic_file, ical_file, prog, pc, trademarks,
                   licensing_agreements, today, frame, smtp, outbox>>

(***************************************************************************)
(* The territory runs: the connector over both files.                      *)
(***************************************************************************)
TerritoryTmFiles ==
    {NoFile, BadFile} \cup
    {File("ok", [i \in DOMAIN c |->
                    Trademark(i, "DR. GREENTHUMB", c[i][1], <<2028, 1, 1>>,
                              c[i][2])]) :
        c \in SeqsUpTo(Jurisdictions \X TmStatuses, MaxTms)}

AgreementFiles ==
    {NoFile, BadFile} \cup
    {File("ok", [i \in DOMAIN c |->
                    IF c[i][1] = <<>> THEN BareAgreement(i, c[i][2])
                    ELSE Agreement(i, c[i][1], c[i][2])]) :
        c \in SeqsUpTo((TerritoryLists \X AgreementStatuses)
                           \cup {<< <<>>, "active" >>}, MaxAgreements)}

InitTerritory ==
    /\ tm_file \in TerritoryTmFiles
    /\ lic_file \in AgreementFiles
    /\ ical_file = NoFile
    /\ prog = "none"
    /\ pc = "start"
    /\ trademarks = <<>>
    /\ licensing_agreements = <<>>
    /\ today = Today0
    /\ call = NoCall
    /\ frame = NoFrame
    /\ smtp = NoSmtp
    /\ outbox = <<>>

NextTerritory ==
    \/ ConnectorInit
    \/ GenerateTerritoryReport

SpecTerritory == InitTerritory /\ [][NextTerritory]_vars

(***************************************************************************)
(* The three loaders of trademarks.json, each over the same files.         *)
(***************************************************************************)
NextLoad ==
    \/ TrackerInit
    \/ CalendarInit
    \/ ConnectorInit

SpecLoad == InitTerritory /\ [][NextLoad]_vars

(***************************************************************************)
(* Properties of the territory runs and of the loaders.                    *)
(***************************************************************************)
\* the lowercase form of each name the runs are given
Lowercased(name) ==
    CASE name = Texas -> texas
      [] name = Nevada -> nevada
      [] OTHER -> name
Reported == call.op = "generate_territory_report"
TerritoriesOf(ag) ==
    IF "territories" \in DOMAIN ag
    THEN {ag.territories[n] : n \in DOMAIN ag.territories}
    ELSE {}
LicensedSet(ags) ==
    {Lowercased(t) : t \in UNION {TerritoriesOf(ags[k]) :
                          k \in {j \in DOMAIN ags : ags[j].status = "active"}}}
ProtectedSet(tms) ==
    {Lowercased(tms[i].jurisdiction) :
        i \in {j \in DOMAIN tms : tms[j].status = "active"}}

\* C3: the report's unprotected set is licensed_territories minus
\* protected_territories, the first being the lowercased territories of the
\* active agreements only and the second the lowercased jurisdictions of the
\* active trademarks only; the two counts reported are the sizes of these sets.
C3_UnprotectedIsDifference ==
    Reported =>
        /\ call.licensed_territories = LicensedSet(call.agreements)
        /\ call.protected_territories = ProtectedSet(call.before)
        /\ call.ret.unprotected
               = LicensedSet(call.agreements) \ ProtectedSet(call.before)
        /\ call.ret.licensed = Cardinality(LicensedSet(call.agreements))
        /\ call.ret.protected = Cardinality(ProtectedSet(call.before))

\* an active agreement for 'texas' beside an active 'Texas' trademark: nothing
\* is unprotected
C3_Witness ==
    /\ Reported
    /\ call.agreements = <<Agreement(1, <<texas>>, "active")>>
    /\ Len(call.before) = 1
    /\ call.before[1].jurisdiction = Texas
    /\ call.before[1].status = "active"
    /\ call.ret.unprotected = {}

\* the same agreement with no trademarks: 'texas' is unprotected
C3_WitnessNoTrademarks ==
    /\ Reported
    /\ call.agreements = <<Agreement(1, <<texas>>, "active")>>
    /\ call.before = <<>>
    /\ call.ret.unprotected = {texas}

\* the (trademark, agreement) pairs that C4 counts
ConflictPairs(tms, ags) ==
    {pr \in (DOMAIN tms) \X (DOMAIN ags) :
        /\ tms[pr[1]].status \in {"pending", "abandoned"}
        /\ ags[pr[2]].status = "active"
        /\ \E t \in TerritoriesOf(ags[pr[2]]) :
               Lowercased(t) = Lowercased(tms[pr[1]].jurisdiction)}

\* C4: the conflicts returned are as many as the pairs of a pending or
\* abandoned trademark and an active agreement one of whose territories
\* equals the trademark's jurisdiction when case is ignored, and each such
\* pair has its own entry carrying the agreement's id.
C4_ConflictsAreThePairs ==
    Reported =>
        LET pairs == ConflictPairs(call.before, call.agreements)
            cs == call.ret.conflicts
        IN  /\ Len(cs) = Cardinality(pairs)
            /\ \A pr \in pairs :
                   \E k \in DOMAIN cs :
                       /\ cs[k].agreement_id = call.agreements[pr[2]].id
                       /\ cs[k].jurisdiction = call.before[pr[1]].jurisdiction

\* the pairs that check_territory_conflicts does report: the territory list
\* holds the lowercased jurisdiction exactly as written
ExactPairs(tms, ags) ==
    {pr \in (DOMAIN tms) \X (DOMAIN ags) :
        /\ tms[pr[1]].status \in {"pending", "abandoned"}
        /\ ags[pr[2]].status = "active"
        /\ Lowercased(tms[pr[1]].jurisdiction) \in TerritoriesOf(ags[pr[2]])}

\* what holds in place of C4: one conflict per pair whose territory list
\* holds the lowercased jurisdiction itself
C4_ConflictsAreTheExactPairs ==
    Reported =>
        Len(call.ret.conflicts)
            = Cardinality(ExactPairs(call.before, call.agreements))

\* two active agreements for 'texas' and a pending 'Texas' trademark: two
\* conflicts
C4_WitnessNoDeduplication ==
    /\ Reported
    /\ Len(call.ret.conflicts) = 2
    /\ Len(call.before) = 1
    /\ call.ret.conflicts[1].agreement_id # call.ret.conflicts[2].agreement_id

\* C13: every conflict of a territory report names a licensed territory
\* without active trademark protection: its lowercased jurisdiction is in
\* licensed_territories, is the lowercased jurisdiction of no active
\* trademark, and so is in the unprotected set of the same report.
C13_ConflictsAreUnprotected ==
    Reported =>
        \A k \in DOMAIN call.ret.conflicts :
            LET j == Lowercased(call.ret.conflicts[k].jurisdiction) IN
            /\ j \in call.licensed_territories
            /\ \A i \in DOMAIN call.before :
                   call.before[i].status = "active"
                       => Lowercased(call.before[i].jurisdiction) # j
            /\ j \in call.ret.unprotected

\* what holds in place of C13: every conflict names a licensed territory
C13_ConflictsAreLicensed ==
    Reported =>
        \A k \in DOMAIN call.ret.conflicts :
            Lowercased(call.ret.conflicts[k].jurisdiction)
                \in call.licensed_territories

\* a conflict reported for a territory that is unprotected
C13_WitnessUnprotected ==
    /\ Reported
    /\ Len(call.ret.conflicts) = 1
    /\ Lowercased(call.ret.conflicts[1].jurisdiction) \in call.ret.unprotected

Loaded == prog \in {"tracker", "calendar", "connector"}

\* C7 as stated: a missing or malformed licensing-agreements file gives the
\* connector an empty agreement collection and the run goes on; a missing or
\* malformed trademark file ends every loader's run in error.
C7_LicensingForgivenTrademarksFatal ==
    Loaded =>
        /\ tm_file.state # "ok" => pc = "error"
        /\ (prog = "connector" /\ tm_file.state = "ok" /\ lic_file.state # "ok")
               => (pc = "ready" /\ licensing_agreements = <<>>)

\* C7 as amended: a missing licensing-agreements file is loaded as an empty
\* collection and a malformed one is fatal; a malformed trademark file is
\* fatal to every loader; a missing trademark file is fatal to
\* CalendarSync.load_trademarks only, the tracker and the connector go on
\* with an empty trademark list.
C7_MissingForgivenMalformedFatal ==
    Loaded =>
        /\ pc = "error" <=>
               \/ tm_file.state = "malformed"
               \/ prog = "calendar" /\ tm_file.state = "missing"
               \/ prog = "connector" /\ lic_file.state = "malformed"
        /\ pc # "error" =>
               /\ pc = "ready"
               /\ trademarks = IF tm_file.state = "ok" THEN tm_file.content
                               ELSE <<>>
               /\ prog = "connector" =>
                      licensing_agreements
                          = IF lic_file.state = "ok" THEN lic_file.content
                            ELSE <<>>

\* the connector goes on with trademarks loaded and the agreements file missing
C7_Witness ==
    /\ prog = "connector"
    /\ pc = "ready"
    /\ lic_file.state = "missing"
    /\ tm_file.state = "ok"
    /\ trademarks # <<>>
    /\ licensing_agreements = <<>>

\* the tracker goes on with an empty list when trademarks.json is missing
C7_WitnessTrackerMissing ==
    prog = "tracker" /\ tm_file.state = "missing" /\ pc = "ready"

(***************************************************************************)
(* integrations/email_notifier.py.  What the SMTP server does with one     *)
(* session is the environment's choice.                                    *)
(***************************************************************************)
Outcomes == {"refused", "starttls_error", "auth_error", "send_error",
             "quit_error", "sent"}

\* the with-block of send_email: SMTP(), starttls, login, send_message, and
\* the QUIT of __exit__; the first failing step raises
smtp_session(outcome) ==
    CASE outcome = "refused" ->
            [exc |-> "ConnectionRefusedError", connects |-> 1, sends |-> 0,
             delivered |-> FALSE]
      [] outcome = "starttls_error" ->
            [exc |-> "SMTPNotSupportedError", connects |-> 1, sends |-> 0,
             delivered |-> FALSE]
      [] outcome = "auth_error" ->
            [exc |-> "SMTPAuthenticationError", connects |-> 1, sends |-> 0,
             delivered |-> FALSE]
      [] outcome = "send_error" ->
            [exc |-> "SMTPRecipientsRefused", connects |-> 1, sends |-> 1,
             delivered |-> FALSE]
      [] outcome = "quit_error" ->
            [exc |-> "SMTPResponseException", connects |-> 1, sends |-> 1,
             delivered |-> TRUE]
      [] outcome = "sent" ->
            [exc |-> "none", connects |-> 1, sends |-> 1, delivered |-> TRUE]

SmtpExceptions == {"SMTPNotSupportedError", "SMTPAuthenticationError",
                   "SMTPRecipientsRefused", "SMTPResponseException"}
Exceptions == SmtpExceptions \cup {"ConnectionRefusedError"}

\* variant of is_caught: except smtplib.SMTPException
is_caught_smtp_only(exc) == exc \in SmtpExceptions

\* except Exception as e
is_caught(exc) == exc \in Exceptions

\* send_email(recipients, subject, body, priority)
send_email(password, outcome) ==
    IF ~password
    THEN [ret |-> FALSE, raised |-> FALSE, exc |-> "none", connects |-> 0,
          sends |-> 0, delivered |-> FALSE]
    ELSE LET r == smtp_session(outcome) IN
         IF r.exc = "none"
         THEN [ret |-> TRUE, raised |-> FALSE] @@ r
         ELSE [ret |-> FALSE, raised |-> ~is_caught(r.exc)] @@ r

\* EmailNotifier(): load_config with no config file takes the environment
NotifierInit ==
    /\ prog = "none"
    /\ prog' = "notifier"
    /\ pc' = "ready"
    /\ UNCHANGED <<tm_file, lic_file, ical_file, trademarks,
                   licensing_agreements, today, call, frame, smtp, outbox>>

\* one alert or report method: it builds the message and returns send_email's
\* answer; an exception that leaves send_email ends the run
Send(kind, subject, recipients, priority) ==
    /\ prog = "notifier" /\ pc = "ready"
    /\ Len(outbox) < MaxSends
    /\ \E outcome \in Outcomes :
        LET r == send_email(smtp.password, outcome) IN
        /\ outbox' = Append(outbox, [kind |-> kind, subject |-> subject,
                                     recipients |-> recipients,
                                     priority |-> priority] @@ r)
        /\ pc' = IF r.raised THEN "error" ELSE "ready"
    /\ UNCHANGED <<tm_file, lic_file, ical_file, prog, trademarks,
                   licensing_agreements, today, call, frame, smtp>>

\* send_renewal_alert(trademark, days_until)
SendRenewalAlert ==
    \E days_until \in {25, 45} :
        Send("renewal", IF days_until <= 30 THEN "URGENT" ELSE "REMINDER",
             <<"legal_team", "b_real">>, "normal")

\* send_overdue_alert(trademark, days_overdue)
SendOverdueAlert ==
    Send("overdue", "CRITICAL", <<"legal_team", "b_real", "business_dev">>,
         "high")

\* send_weekly_report(report_data)
SendWeeklyReport ==
    Send("weekly", "Weekly Trademark Portfolio Report",
         <<"legal_team", "b_real">>, "normal")

InitEmail ==
    /\ tm_file = NoFile
    /\ lic_file = NoFile
    /\ ical_file = NoFile
    /\ prog = "none"
    /\ pc = "start"
    /\ trademarks = <<>>
    /\ licensing_agreements = <<>>
    /\ today = Today0
    /\ call = NoCall
    /\ frame = NoFrame
    /\ smtp \in [password : BOOLEAN]
    /\ outbox = <<>>

NextEmail ==
    \/ NotifierInit
    \/ SendRenewalAlert
    \/ SendOverdueAlert
    \/ SendWeeklyReport

SpecEmail == InitEmail /\ [][NextEmail]_vars

\* C8: no exception leaves send_email: a call whose SMTP session fails
\* returns False; a call opens at most one session and calls send_message
\* at most once; it returns True only if send_message completed; and after
\* any send, failed or not, the notifier stands ready for the next one.
C8_SendFailureIsContained ==
    /\ \A k \in DOMAIN outbox :
           /\ ~outbox[k].raised
           /\ outbox[k].exc # "none" => outbox[k].ret = FALSE
           /\ outbox[k].connects <= 1
           /\ outbox[k].sends <= 1
           /\ outbox[k].ret = TRUE =>
                  (outbox[k].delivered /\ smtp.password)
    /\ prog = "notifier" => pc = "ready"
    /\ (prog = "notifier" /\ Len(outbox) < MaxSends) =>
           /\ ENABLED SendRenewalAlert
           /\ ENABLED SendOverdueAlert
           /\ ENABLED SendWeeklyReport

\* a send refused by the server returned False and the next send went out
C8_Witness ==
    /\ Len(outbox) >= 2
    /\ outbox[1].exc = "ConnectionRefusedError"
    /\ outbox[1].ret = FALSE
    /\ outbox[1].connects = 1
    /\ outbox[2].ret = TRUE

(***************************************************************************)
(* The tracker over a trademarks.json edited outside the program: records  *)
(* removed or renumbered, the ids still pairwise distinct.                 *)
(***************************************************************************)
EditedFiles ==
    {File("ok", [i \in DOMAIN c |->
                    Trademark(c[i], "DR. GREENTHUMB", "Arizona",
                              <<2028, 1, 1>>, "active")]) :
        c \in {d \in SeqsUpTo(1..MaxId, MaxTms) :
                  \A a, b \in DOMAIN d : a # b => d[a] # d[b]}}

InitIds == tm_file \in EditedFiles /\ InitCommon

SpecIds == InitIds /\ [][NextRenewal]_vars

Added == call.op = "add_trademark"

\* C9: after an add_trademark call the ids of the collection are pairwise
\* distinct and the id given to the new record is greater than every id the
\* collection held before.
C9_IdsDistinctAndAscending ==
    Added =>
        /\ \A a, b \in DOMAIN trademarks :
               a # b => trademarks[a].id # trademarks[b].id
        /\ \A a \in DOMAIN call.before : call.before[a].id < call.added.id

\* the part of C9 that add_trademark does give: the new id is one more than
\* the number of records held before
C9_IdIsCount == Added => call.added.id = Len(call.before) + 1

(***************************************************************************)
(* Properties of the renewal runs.                                         *)
(***************************************************************************)
IsBad(str_date) == str_date \in BadDates
RenewalDay(tm) ==
    ymd2ord(tm.renewal_date[1], tm.renewal_date[2], tm.renewal_date[3])
DaysUntil(tm, as_of) == RenewalDay(tm) - as_of
Eligible(tm, as_of, h) ==
    /\ tm.status = "active"
    /\ ~IsBad(tm.renewal_date)
    /\ 0 <= DaysUntil(tm, as_of) /\ DaysUntil(tm, as_of) <= h
Entry(tm, as_of) == [days_until |-> DaysUntil(tm, as_of)] @@ tm
Occurrences(s, x) == Cardinality({k \in DOMAIN s : s[k] = x})
UpcomingReturned == call.op = "get_upcoming" /\ ~call.raised

\* C1: a get_upcoming(h) call that returns gives exactly the records that are
\* active with 0 <= days_until <= h, days_until being renewal_date minus the
\* call's date in days, each once per stored record and each carrying its
\* days_until; nothing inactive, overdue or beyond the horizon is returned.
C1_UpcomingIsTheWindow ==
    UpcomingReturned =>
        LET tms == call.before
            el == {i \in DOMAIN tms : Eligible(tms[i], call.as_of, call.days)}
        IN  /\ Len(call.ret) = Cardinality(el)
            /\ \A k \in DOMAIN call.ret :
                   /\ call.ret[k].status = "active"
                   /\ call.ret[k].days_until >= 0
                   /\ call.ret[k].days_until <= call.days
                   /\ \E i \in el : call.ret[k] = Entry(tms[i], call.as_of)
            /\ \A i \in el :
                   Occurrences(call.ret, Entry(tms[i], call.as_of))
                       = Cardinality({j \in el : tms[j] = tms[i]})

\* an active record 30 days out is returned at h = 30 with days_until = 30,
\* beside a stored record that is left out
C1_Witness ==
    /\ UpcomingReturned
    /\ call.days = 30
    /\ \E k \in DOMAIN call.ret : call.ret[k].days_until = 30
    /\ Len(call.ret) < Len(call.before)

\* a record 30 days out is not returned at h = 29
C1_Witness29 ==
    /\ UpcomingReturned
    /\ call.days = 29
    /\ \E i \in DOMAIN call.before :
           /\ call.before[i].status = "active"
           /\ ~IsBad(call.before[i].renewal_date)
           /\ DaysUntil(call.before[i], call.as_of) = 30
    /\ call.ret = <<>>

\* C2: the returned sequence ascends in days_until, and returned records of
\* equal days_until keep the order they have in the stored collection: the
\* result is the eligible records taken in an order f that sorts by
\* (days_until, position).
C2_UpcomingSortedStable ==
    UpcomingReturned =>
        LET tms == call.before
            ret == call.ret
        IN  /\ \A a, b \in DOMAIN ret :
                   a < b => ret[a].days_until <= ret[b].days_until
            /\ \E f \in [DOMAIN ret -> DOMAIN tms] :
                   /\ \A a \in DOMAIN ret : ret[a] = Entry(tms[f[a]], call.as_of)
                   /\ \A a, b \in DOMAIN ret :
                          a < b => /\ f[a] # f[b]
                                   /\ (ret[a].days_until = ret[b].days_until
                                          => f[a] < f[b])

\* two stored records of equal days_until are returned, in their stored order
C2_Witness ==
    /\ UpcomingReturned
    /\ Len(call.ret) = 2
    /\ call.ret[1].days_until = call.ret[2].days_until
    /\ call.ret[1].id < call.ret[2].id
    /\ call.before[1].id < call.before[2].id

\* a record stored later and due sooner is returned first
C2_WitnessReordered ==
    /\ UpcomingReturned
    /\ Len(call.ret) = 2
    /\ call.ret[1].days_until < call.ret[2].days_until
    /\ call.ret[1] = Entry(call.before[2], call.as_of)

ReportPrinted == call.op = "generate_report"
SameDate == ReportPrinted /\ call.as_of[1] = call.as_of[2]
                          /\ call.as_of[2] = call.as_of[3]

\* C5: when the three get_upcoming calls of a report read the same date over
\* the same collection, every entry of the 30-day result is in the 60-day
\* result and every entry of the 60-day result is in the 90-day result, and
\* the lengths ascend.
C5_HorizonsNested ==
    SameDate =>
        \A h \in 1..2 :
            /\ \A k \in DOMAIN call.upcoming[h] :
                   Occurrences(call.upcoming[h], call.upcoming[h][k])
                       <= Occurrences(call.upcoming[h + 1], call.upcoming[h][k])
            /\ Len(call.upcoming[h]) <= Len(call.upcoming[h + 1])

\* a report at one date whose 30-day result is non-empty and smaller than its
\* 90-day result
C5_Witness ==
    /\ SameDate
    /\ call.within[1] >= 1
    /\ call.within[1] < call.within[3]

IcalWritten == call.op = "generate_ical" /\ ~call.raised
ActiveAt(tms) == {i \in DOMAIN tms : tms[i].status = "active"}
AlertOffsets == <<90, 60, 30, 7, 0>>
OffsetLabel(n) ==
    CASE n = 90 -> <<"9", "0", "-day reminder">>
      [] n = 60 -> <<"6", "0", "-day reminder">>
      [] n = 30 -> <<"3", "0", "-day reminder">>
      [] n = 7 -> <<"7", "-day reminder">>
      [] n = 0 -> <<"RENEWAL DEADLINE">>

\* C6: a generate_ical run that completes writes 5 events per active
\* trademark and none for the others: for the k-th active record, in turn the
\* events of the offsets 90, 60, 30, 7 and 0, each starting on renewal_date
\* minus the offset and summarised "TM: {name} - {N}-day reminder", the last
\* "TM: {name} - RENEWAL DEADLINE".
C6_FiveEventsPerActive ==
    IcalWritten =>
        LET tms == call.before
            ev == call.ret
        IN  /\ Len(ev) = 5 * Cardinality(ActiveAt(tms))
            /\ ical_file = File("ok", ev)
            /\ \A i \in ActiveAt(tms) :
                   LET k == Cardinality({j \in ActiveAt(tms) : j < i}) IN
                   \A n \in 1..5 :
                       LET e == ev[5 * k + n] IN
                       /\ e.dtstart[2] \in 1..12
                       /\ e.dtstart[3] \in 1..days_in_month(e.dtstart[1], e.dtstart[2])
                       /\ ymd2ord(e.dtstart[1], e.dtstart[2], e.dtstart[3])
                              = RenewalDay(tms[i]) - AlertOffsets[n]
                       /\ e.summary = <<"TM: ", tms[i].name, " - ">>
                                          \o OffsetLabel(AlertOffsets[n])

\* a calendar written for an active record beside an inactive one
C6_Witness ==
    /\ IcalWritten
    /\ Len(call.ret) = 5
    /\ Len(call.before) = 2

UpcomingCalled == call.op = "get_upcoming"

\* C11: get_upcoming leaves its input as it was: after a call, returned or
\* failed, self.trademarks holds the records it held before, in the same
\* order, with the same fields and values (no stored record has a days_until
\* field), and trademarks.json is as it was before the call.
C11_UpcomingLeavesInput ==
    UpcomingCalled =>
        /\ trademarks = call.before
        /\ \A i \in DOMAIN trademarks :
               DOMAIN trademarks[i]
                   = {"id", "name", "jurisdiction", "renewal_date", "status"}
        /\ tm_file = call.file

\* a call returned both stored records, each entry with a days_until the
\* stored record does not have
C11_Witness ==
    /\ UpcomingCalled /\ ~call.raised
    /\ Len(call.ret) = 2
    /\ Len(trademarks) = 2
    /\ \A k \in DOMAIN call.ret : "days_until" \in DOMAIN call.ret[k]
    /\ \A i \in DOMAIN trademarks : "days_until" \notin DOMAIN trademarks[i]
    /\ tm_file = File("ok", trademarks)

ReportedTrademarks(h) ==
    {call.upcoming[h][k].id : k \in DOMAIN call.upcoming[h]}

\* C12: the three figures of one generate_report satisfy within-30 <=
\* within-60 <= within-90, and every trademark listed as urgent is among
\* those counted for 60 and for 90 days, also when the date moves on between
\* the three get_upcoming calls.
C12_ReportFiguresNested ==
    ReportPrinted =>
        /\ call.within[1] <= call.within[2]
        /\ call.within[2] <= call.within[3]
        /\ ReportedTrademarks(1) \subseteq ReportedTrademarks(2)
        /\ ReportedTrademarks(1) \subseteq ReportedTrademarks(3)

\* what holds in place of C12: the nesting for a report whose three calls
\* read one date
C12_ReportFiguresNestedSameDate ==
    SameDate =>
        /\ call.within[1] <= call.within[2]
        /\ call.within[2] <= call.within[3]
        /\ ReportedTrademarks(1) \subseteq ReportedTrademarks(2)
        /\ ReportedTrademarks(1) \subseteq ReportedTrademarks(3)

\* a report printed with midnight passing between its calls
C12_WitnessDateMoved ==
    ReportPrinted /\ call.as_of[1] < call.as_of[3] /\ call.within[1] >= 1

ParsingRun == call.op \in {"get_upcoming", "generate_ical"}
BadAt(tms) == {i \in DOMAIN tms : IsBad(tms[i].renewal_date)}

\* C10 as stated: a malformed renewal_date anywhere in the collection, on a
\* record of any status, fails the get_upcoming or generate_ical run.
C10_AnyMalformedDateFails ==
    (ParsingRun /\ BadAt(call.before) # {}) => call.raised

\* C10 as amended: a get_upcoming or generate_ical run fails exactly when a
\* record of status active has a malformed renewal_date, wherever it stands
\* in the collection; the failed run ends in error with nothing returned and
\* no calendar written; a malformed date on an inactive record is not read.
C10_ActiveMalformedDateFails ==
    ParsingRun =>
        /\ call.raised <=> (BadAt(call.before) \cap ActiveAt(call.before) # {})
        /\ call.raised => /\ pc = "error"
                          /\ call.ret = <<>>
                          /\ ical_file = NoFile

\* a run fails on a malformed date in the last record, after a record that
\* is in the window
C10_Witness ==
    /\ ParsingRun /\ call.raised
    /\ Len(call.before) = 2
    /\ 2 \in BadAt(call.before) \cap ActiveAt(call.before)
    /\ call.before[1].status = "active"
    /\ ~IsBad(call.before[1].renewal_date)


====
